---- MODULE Spec2Model ----
(***************************************************************************)
(* AI Mentor: the conversation orchestrator of agent.py (chat and the      *)
(* module-global chat_history) and the session handling of app.py          *)
(* (ensure_agent_ready, get_agent_executor_cached, the submit handler).    *)
(***************************************************************************)
EXTENDS Integers, Sequences, FiniteSets, TLC

VARIABLES chat_history,    \* agent.py: the module-global list of turns
          agent_executor,  \* the handle the sequential caller passes to chat()
          create_log,      \* every create_agent() call so far: who made it, did it succeed
          last,            \* what the most recent chat() call did and returned
          log,             \* every turn appended since chat_history was last empty
          calls,           \* number of chat() calls made so far
          session_state,   \* app.py: st.session_state of each web session
          cache,           \* app.py: the st.cache_resource entry, process-wide
          inflight,        \* app.py: the submit handler of each session, in progress
          tool,            \* agent.py: the most recent call of a tool of the catalog
          console,         \* agent.py: the interactive console, its position and output
          env              \* the environment of the process: the credentials that are set

vars == <<chat_history, agent_executor, create_log, last, log, calls,
          session_state, cache, inflight, tool, console, env>>

(* The state of the hosts that a step of another host leaves alone *)
hostvars == <<tool, console, env>>

-----------------------------------------------------------------------------
(* Bounds of the model *)

MaxCalls == 2

MaxPrefill == 16

MaxCreate == 3

(* agent.py line 687: the history keeps its last 30 messages *)
HistoryCap == 30

-----------------------------------------------------------------------------
(* Python values.  type is the class of the value, s is str(value), items  *)
(* are the elements of a tuple or list; for a dict, items is <<v>> when    *)
(* the key 'output' maps to v and <<>> when the key is absent; for any     *)
(* other object, items is <<v>> when it has an attribute output = v.       *)

Str(t) == [type |-> "str", s |-> t, items |-> <<>>]

None == [type |-> "NoneType", s |-> "None", items |-> <<>>]

Tuple(xs) == [type |-> "tuple", s |-> "(...)", items |-> xs]

List(xs) == [type |-> "list", s |-> "[...]", items |-> xs]

Dict(xs) == [type |-> "dict", s |-> "{...}", items |-> xs]

Object(repr, xs) == [type |-> "object", s |-> repr, items |-> xs]

(* Python truth value: bool(x) *)
Truthy(x) ==
    CASE x.type = "str" -> x.s # ""
      [] x.type = "NoneType" -> FALSE
      [] x.type \in {"tuple", "list", "dict"} -> Len(x.items) > 0
      [] OTHER -> TRUE

(* Python str(x) *)
PyStr(x) == Str(x.s)

-----------------------------------------------------------------------------
(* The fixed texts of chat() *)

REPHRASE_MSG == "I'm here to help! Could you please rephrase your question or tell me more about what you need assistance with?"

TROUBLE_MSG == "I'm having a bit of trouble understanding. Could you provide more details about what you need help with?"

ENCOURAGE_MSG == "I want to help you! Could you tell me more about what you're looking for?"

FALLBACK_PREFIX == "I encountered a technical issue, but I'm still here to help! Could you try rephrasing your question? Error: "

SENTINEL == "No response generated"

MENTOR_MSG == "I'm here as your mentor! How can I support you today?"

TECHNICAL_MSG == "I'm having a technical issue, but please try asking your question again. I'm here to support you!"

-----------------------------------------------------------------------------
(* Formatting the stored history for the agent executor *)

NoMessages == [exc |-> FALSE, msgs |-> <<>>]

(* langchain HumanMessage(content=...): the content is validated, a str or *)
(* a list is accepted, None is rejected with a validation error            *)
HumanMessage(content) ==
    IF content.type \in {"str", "list"}
    THEN [exc |-> FALSE, msgs |-> <<[cls |-> "HumanMessage", content |-> content]>>]
    ELSE [exc |-> TRUE, msgs |-> <<>>]

AIMessage(content) ==
    [exc |-> FALSE, msgs |-> <<[cls |-> "AIMessage", content |-> content]>>]

FormatEntryUnfiltered(msg) ==
    IF msg.type = "tuple" /\ Len(msg.items) = 2
    THEN LET role == msg.items[1]
             content == msg.items[2]
         IN IF role = Str("human")
            THEN HumanMessage(content)
            ELSE IF role = Str("assistant") THEN AIMessage(content) ELSE NoMessages
    ELSE NoMessages

(* One iteration of the loop over chat_history *)
FormatEntry(msg) ==
    IF msg.type = "tuple" /\ Len(msg.items) = 2
    THEN LET role == msg.items[1]
             content == msg.items[2]
         IN IF role = Str("human")
            THEN HumanMessage(content)
            ELSE IF role = Str("assistant") /\ Truthy(content)
                 THEN IF content.type = "str" THEN AIMessage(content) ELSE NoMessages
                 ELSE NoMessages
    ELSE NoMessages

RECURSIVE FormatFrom(_, _, _)
FormatFrom(h, i, acc) ==
    IF i > Len(h) THEN [exc |-> FALSE, msgs |-> acc]
    ELSE LET one == FormatEntry(h[i])
         IN IF one.exc THEN [exc |-> TRUE, msgs |-> acc]
            ELSE FormatFrom(h, i + 1, acc \o one.msgs)

FormatHistory(h) == FormatFrom(h, 1, <<>>)

-----------------------------------------------------------------------------
(* Extracting the reply from what agent_executor.invoke returned *)

ExtractOutput(response) ==
    IF response.type = "NoneType" THEN Str(REPHRASE_MSG)
    ELSE IF response.type = "dict"
         THEN LET output == IF Len(response.items) > 0 THEN response.items[1] ELSE Str("")
              IN IF ~Truthy(output) THEN Str(TROUBLE_MSG) ELSE output
         ELSE IF response.type = "object" /\ Len(response.items) > 0
                 /\ response.items[1].type # "NoneType"
              THEN PyStr(response.items[1])
              ELSE PyStr(response)

NormalizeKeepsNonText(output) ==
    IF ~Truthy(output) THEN Str(ENCOURAGE_MSG) ELSE output

NormalizeOutput(output) ==
    IF ~Truthy(output) \/ output.type # "str" THEN Str(ENCOURAGE_MSG) ELSE output

FallbackWithoutDetail(err) == Str(FALLBACK_PREFIX)

Fallback(err) == Str(FALLBACK_PREFIX \o err)

(* The inner try/except around invoke: outcome is what invoke did *)
RunAgent(outcome) ==
    IF outcome.kind = "raise"
    THEN Fallback(outcome.err)
    ELSE NormalizeOutput(ExtractOutput(outcome.value))

-----------------------------------------------------------------------------
(* Updating the history *)

FirstInsteadOfLast(h, n) == IF Len(h) > n THEN SubSeq(h, 1, n) ELSE h

(* h[-n:] *)
Last(h, n) == IF Len(h) > n THEN SubSeq(h, Len(h) - n + 1, Len(h)) ELSE h

(* The tuple (role, content) *)
Turn(role, content) == Tuple(<<Str(role), content>>)

StorableWithSentinel(output) == Truthy(output)

(* The condition under which the exchange is stored *)
Storable(output) == Truthy(output) /\ output # Str(SENTINEL)

AppendExchangeReplyFirst(h, user_input, output) ==
    IF Storable(output)
    THEN h \o <<Turn("assistant", output), Turn("human", user_input)>>
    ELSE h

AppendExchange(h, user_input, output) ==
    IF Storable(output)
    THEN h \o <<Turn("human", user_input), Turn("assistant", output)>>
    ELSE h

TrimNever(h) == h

TrimOneTooMany(h) == IF Len(h) > HistoryCap THEN Last(h, HistoryCap - 1) ELSE h

TrimHistory(h) == IF Len(h) > HistoryCap THEN Last(h, HistoryCap) ELSE h

UpdateHistory(h, user_input, output) == TrimHistory(AppendExchange(h, user_input, output))

-----------------------------------------------------------------------------
(* Handles of agent executors: NoHandle is Python's None, the k-th         *)
(* successful create_agent() call returns the handle k.                    *)

NoHandle == 0

RECURSIVE Successes(_)
Successes(cl) ==
    IF cl = <<>> THEN 0
    ELSE (IF cl[Len(cl)].ok THEN 1 ELSE 0) + Successes(SubSeq(cl, 1, Len(cl) - 1))

(* The two credentials create_agent() needs: ChatGroq reads GROQ_API_KEY    *)
(* and TavilySearchResults reads TAVILY_API_KEY from the environment       *)
Credentials == {"GROQ_API_KEY", "TAVILY_API_KEY"}

(* What the environment holds: each of the two keys set or not *)
Environments == SUBSET Credentials

CreateAgentUnchecked(e) == BOOLEAN

(* Whether create_agent() can succeed in environment e: the constructors   *)
(* of ChatGroq and of TavilySearchResults raise when their key is not set, *)
(* and the construction can fail for other reasons when both are set       *)
CreateAgentOutcomes(e) == IF Credentials \subseteq e THEN BOOLEAN ELSE {FALSE}

(* create_agent() called by `by`; ok says whether the construction succeeds *)
CreateAgentLog(cl, by, ok) == Append(cl, [by |-> by, ok |-> ok])

NewHandle(cl) == Successes(cl) + 1

-----------------------------------------------------------------------------
(* chat(user_input, agent_executor)                                        *)
(*   h        the value of chat_history when the call starts               *)
(*   create   whether create_agent() succeeds, should chat() call it       *)
(*   outcome  what agent_executor.invoke does: returns a value or raises   *)
(* The result says what the call returned (ret), whether an exception left *)
(* the function (exc), the new history, whether the exchange was appended, *)
(* whether invoke was reached and the chat_history it was given, and       *)
(* whether create_agent() was called.                                      *)

EscapedLosingHistory(h, tried) ==
    [exc |-> TRUE, ret |-> None, history |-> <<>>, appended |-> FALSE,
     invoked |-> FALSE, passed |-> <<>>, tried |-> tried]

Escaped(h, tried) ==
    [exc |-> TRUE, ret |-> None, history |-> h, appended |-> FALSE,
     invoked |-> FALSE, passed |-> <<>>, tried |-> tried]

ChatBodyPassingInput(h, user_input, executor, create, outcome) ==
    LET fmt == FormatHistory(h)
    IN IF fmt.exc THEN Escaped(h, FALSE)
       ELSE IF executor = NoHandle /\ ~create THEN Escaped(h, TRUE)
       ELSE LET output == RunAgent(outcome)
            IN [exc |-> FALSE,
                ret |-> IF Truthy(output) THEN output ELSE Str(MENTOR_MSG),
                history |-> UpdateHistory(h, user_input, output),
                appended |-> Storable(output),
                invoked |-> TRUE,
                passed |-> fmt.msgs \o HumanMessage(user_input).msgs,
                tried |-> (executor = NoHandle)]

(* The statements inside the outer try *)
ChatBody(h, user_input, executor, create, outcome) ==
    LET fmt == FormatHistory(h)
    IN IF fmt.exc THEN Escaped(h, FALSE)
       ELSE IF executor = NoHandle /\ ~create THEN Escaped(h, TRUE)
       ELSE LET output == RunAgent(outcome)
            IN [exc |-> FALSE,
                ret |-> IF Truthy(output) THEN output ELSE Str(MENTOR_MSG),
                history |-> UpdateHistory(h, user_input, output),
                appended |-> Storable(output),
                invoked |-> TRUE,
                passed |-> fmt.msgs,
                tried |-> (executor = NoHandle)]

CatchNothing(r) == r

(* The outer except: any exception becomes the generic text *)
CatchAll(r) ==
    IF r.exc THEN [r EXCEPT !.exc = FALSE, !.ret = Str(TECHNICAL_MSG)] ELSE r

chat(h, user_input, executor, create, outcome) ==
    CatchAll(ChatBody(h, user_input, executor, create, outcome))

-----------------------------------------------------------------------------
(* Inputs *)

UserInputs == {Str("How do I register for courses?"), Str("")}

Return(v) == [kind |-> "return", value |-> v, err |-> ""]

Raise(e) == [kind |-> "raise", value |-> None, err |-> e]

Responses ==
    { None,
      Dict(<<>>),
      Dict(<<Str("")>>),
      Dict(<<None>>),
      Dict(<<Str("Start with the registrar's portal.")>>),
      Dict(<<Str(SENTINEL)>>),
      Dict(<<List(<<Str("part")>>)>>),
      Str("Ask your academic advisor."),
      Str(""),
      Object("<Reply>", <<Str("Check the course catalog.")>>),
      Object("<Reply>", <<Str("")>>),
      Object("<Reply>", <<None>>),
      Object("", <<>>),
      List(<<Str("part")>>) }

LoopOutcomes == {Return(v) : v \in Responses} \cup {Raise("Connection timed out"), Raise("")}

-----------------------------------------------------------------------------
(* The state after k exchanges have been completed: chat() called k times  *)
(* on an empty history, the i-th call with its own question and reply.     *)

OldQuestion(i) == Str("question " \o ToString(i))

OldAnswer(i) == Str("answer " \o ToString(i))

OldReply(i) == Return(Dict(<<OldAnswer(i)>>))

RECURSIVE HistoryAfter(_)
HistoryAfter(k) ==
    IF k = 0 THEN <<>>
    ELSE chat(HistoryAfter(k - 1), OldQuestion(k), 1, TRUE, OldReply(k)).history

RECURSIVE LogAfter(_)
LogAfter(k) ==
    IF k = 0 THEN <<>>
    ELSE LogAfter(k - 1) \o <<Turn("human", OldQuestion(k)), Turn("assistant", OldAnswer(k))>>

NoCall ==
    [done |-> FALSE, by |-> "caller", text |-> None, executor |-> NoHandle,
     outcome |-> Return(None), before |-> <<>>,
     exc |-> FALSE, ret |-> None, appended |-> FALSE, invoked |-> FALSE,
     passed |-> <<>>, tried |-> FALSE]

Sessions == {"s1", "s2"}

(* last_error is "" for None and otherwise the traceback that was stored *)
NewSession ==
    [agent_ready |-> FALSE, agent_executor |-> NoHandle, messages |-> <<>>,
     last_error |-> ""]

Idle == [busy |-> FALSE, text |-> None, executor |-> NoHandle, passed |-> <<>>, before |-> <<>>]

-----------------------------------------------------------------------------
(* The idle values of the tools, the console and the web sessions *)

(* What the search did in a tool that runs no search *)
NoSearch == [kind |-> "none", value |-> None, err |-> ""]

(* Before any tool has been called *)
NoTool ==
    [name |-> "", args |-> <<>>, search |-> NoSearch, exc |-> FALSE, key |-> "",
     parts |-> <<>>]

(* What input() did: returned a line, or raised EOFError or               *)
(* KeyboardInterrupt                                                       *)
NoInput == [kind |-> "none", text |-> ""]

(* The console before it has started.  read is what the last input() did,  *)
(* returned whether the chat() call of the last pass of the loop returned, *)
(* printed what that pass printed.                                         *)
NoConsole ==
    [pc |-> "off", status |-> 0, reads |-> 0, read |-> NoInput, returned |-> FALSE,
     printed |-> <<>>]

WebIdle ==
    /\ session_state = [s \in Sessions |-> NewSession]
    /\ cache = NoHandle
    /\ inflight = [s \in Sessions |-> Idle]
    /\ tool = NoTool
    /\ console = NoConsole

(* A sequential caller of chat(): the console loop of agent.py, which      *)
(* built its executor at startup, or a caller that passes None.            *)

Init ==
    /\ \E k \in {0} \cup ((MaxPrefill - 2) .. MaxPrefill) :
          /\ chat_history = HistoryAfter(k)
          /\ log = LogAfter(k)
    /\ \E held \in BOOLEAN :
          /\ agent_executor = IF held THEN 1 ELSE NoHandle
          /\ create_log = IF held THEN CreateAgentLog(<<>>, "caller", TRUE) ELSE <<>>
    /\ last = NoCall
    /\ calls = 0
    /\ WebIdle
    /\ env = Credentials

(* One call of chat(user_input, agent_executor) by the sequential caller *)
ChatCall(user_input, create, outcome) ==
    \E r \in {chat(chat_history, user_input, agent_executor, create, outcome)} :
       /\ chat_history' = r.history
       /\ create_log' = IF r.tried THEN CreateAgentLog(create_log, "caller", create)
                        ELSE create_log
       /\ last' = [done |-> TRUE, by |-> "caller", text |-> user_input,
                   executor |-> agent_executor, outcome |-> outcome,
                   before |-> chat_history, exc |-> r.exc, ret |-> r.ret,
                   appended |-> r.appended, invoked |-> r.invoked,
                   passed |-> r.passed, tried |-> r.tried]
       /\ log' = IF r.appended
                 THEN log \o <<Turn("human", user_input), Turn("assistant", r.ret)>>
                 ELSE log
       /\ calls' = calls + 1
       /\ UNCHANGED <<agent_executor, session_state, cache, inflight>>
       /\ UNCHANGED hostvars

ChatStep ==
    \E user_input \in UserInputs, outcome \in LoopOutcomes :
       \/ /\ agent_executor # NoHandle
          /\ ChatCall(user_input, TRUE, outcome)
       \/ /\ agent_executor = NoHandle
          /\ \E create \in CreateAgentOutcomes(env) : ChatCall(user_input, create, outcome)

Chat ==
    /\ calls < MaxCalls
    /\ Len(create_log) < MaxCreate
    /\ ChatStep

(* The console's clear command: chat_history.clear() *)
Clear ==
    /\ chat_history # <<>>
    /\ chat_history' = <<>>
    /\ log' = <<>>
    /\ last' = NoCall
    /\ UNCHANGED <<agent_executor, create_log, calls, session_state, cache, inflight>>
    /\ UNCHANGED hostvars

Next == Chat \/ Clear

Spec == Init /\ [][Next]_vars

-----------------------------------------------------------------------------
(* chat() as a function of the stored history: the history is any list of  *)
(* at most MaxMalformed entries, well-formed or not, and chat() is called   *)
(* once on it.                                                              *)

MaxMalformed == 2

Entries ==
    { Turn("human", Str("How do I apply?")),
      Turn("human", Str("")),
      Turn("human", None),
      Turn("assistant", Str("Use the portal.")),
      Turn("assistant", Str("")),
      Turn("assistant", None),
      Turn("assistant", List(<<Str("part")>>)),
      Turn("system", Str("be brief")),
      Tuple(<<Str("human"), Str("a"), Str("b")>>),
      List(<<Str("human"), Str("a")>>),
      Str("human"),
      None }

RECURSIVE Lists(_)
Lists(n) ==
    IF n = 0 THEN {<<>>}
    ELSE Lists(n - 1) \cup {Append(h, e) : h \in Lists(n - 1), e \in Entries}

InitAny ==
    /\ chat_history \in Lists(MaxMalformed)
    /\ log = chat_history
    /\ \E held \in BOOLEAN :
          /\ agent_executor = IF held THEN 1 ELSE NoHandle
          /\ create_log = IF held THEN CreateAgentLog(<<>>, "caller", TRUE) ELSE <<>>
    /\ last = NoCall
    /\ calls = 0
    /\ WebIdle
    /\ env = Credentials

ChatOnce ==
    /\ calls = 0
    /\ ChatStep

SpecAny == InitAny /\ [][ChatOnce]_vars

-----------------------------------------------------------------------------
(* app.py: several browser sessions served by one process.  Each session   *)
(* runs the script in its own thread; agent.chat_history and the           *)
(* st.cache_resource entry belong to the process.                          *)

WebInputs == {Str("Help me find internships in data science"),
              Str("What are the important academic deadlines I should track?")}

(* What the user of session s submits: each user asks a question of their   *)
(* own, so that a stored turn tells which session it came from             *)
SessionInputs(s) ==
    IF s = "s1"
    THEN {Str("Help me find internships in data science")}
    ELSE {Str("What are the important academic deadlines I should track?")}

WebOutcomes ==
    { Return(Dict(<<Str("Here is a plan.")>>)),
      Return(Dict(<<Str(SENTINEL)>>)),
      Raise("Connection timed out") }

THINKING_MSG == "Thinking and gathering the best guidance for you..."

WEB_ERROR_MSG == "I encountered a technical issue. Please check your API keys and try again."

CacheIgnored(c, cl, create) ==
    IF create
    THEN [exc |-> FALSE, executor |-> NewHandle(cl), cache |-> NewHandle(cl), tried |-> TRUE]
    ELSE [exc |-> TRUE, executor |-> NoHandle, cache |-> c, tried |-> TRUE]

(* get_agent_executor_cached() under st.cache_resource: the first call     *)
(* that succeeds stores its result for the process, an exception is not    *)
(* stored.  c is the cache entry, cl the log of create_agent() calls.      *)
GetAgentExecutorCached(c, cl, create) ==
    IF c # NoHandle
    THEN [exc |-> FALSE, executor |-> c, cache |-> c, tried |-> FALSE]
    ELSE IF create
         THEN [exc |-> FALSE, executor |-> NewHandle(cl), cache |-> NewHandle(cl),
               tried |-> TRUE]
         ELSE [exc |-> TRUE, executor |-> NoHandle, cache |-> c, tried |-> TRUE]

(* ensure_agent_ready() for the session whose state is ss *)
EnsureAgentReady(ss, c, cl, create) ==
    IF ss.agent_ready /\ ss.agent_executor # NoHandle
    THEN [exc |-> FALSE, executor |-> ss.agent_executor, cache |-> c, tried |-> FALSE,
          state |-> ss]
    ELSE LET got == GetAgentExecutorCached(c, cl, create)
         IN IF got.exc
            THEN [exc |-> TRUE, executor |-> NoHandle, cache |-> got.cache,
                  tried |-> got.tried, state |-> ss]
            ELSE [exc |-> FALSE, executor |-> got.executor, cache |-> got.cache,
                  tried |-> got.tried,
                  state |-> [ss EXCEPT !.agent_executor = got.executor,
                                       !.agent_ready = TRUE]]

(* The loop that overwrites the newest assistant message *)
RECURSIVE UpdateLastAssistant(_, _, _)
UpdateLastAssistant(messages, i, content) ==
    IF i < 1 THEN messages
    ELSE IF messages[i].role = "assistant"
         THEN [messages EXCEPT ![i].content = content]
         ELSE UpdateLastAssistant(messages, i - 1, content)

InitWeb ==
    /\ chat_history = <<>>
    /\ log = <<>>
    /\ agent_executor = NoHandle
    /\ create_log = <<>>
    /\ last = NoCall
    /\ calls = 0
    /\ WebIdle
    /\ env \in Environments

(* A script run of a session whose agent is not ready: lines 314-327 *)
ScriptInit(s) ==
    /\ ~session_state[s].agent_ready
    /\ ~inflight[s].busy
    /\ Len(create_log) < MaxCreate
    /\ \E create \in CreateAgentOutcomes(env) :
       \E r \in {EnsureAgentReady(session_state[s], cache, create_log, create)} :
          /\ session_state' = [session_state EXCEPT ![s] =
                IF r.exc THEN [r.state EXCEPT !.last_error = "Traceback"]
                ELSE [r.state EXCEPT !.agent_ready = TRUE]]
          /\ cache' = r.cache
          /\ create_log' = IF r.tried THEN CreateAgentLog(create_log, s, create)
                           ELSE create_log
    /\ UNCHANGED <<chat_history, agent_executor, last, log, calls, inflight>>
    /\ UNCHANGED hostvars

(* The submit handler up to the call of invoke: lines 408-426 of app.py    *)
(* and lines 636-662 of agent.py                                           *)
SubmitBegin(s) ==
    /\ session_state[s].agent_ready
    /\ ~inflight[s].busy
    /\ calls < MaxCalls
    /\ \E text \in SessionInputs(s) \cap WebInputs :
       \E r \in {EnsureAgentReady(session_state[s], cache, create_log, TRUE)} :
       \E fmt \in {FormatHistory(chat_history)} :
          LET shown == session_state[s].messages \o
                          <<[role |-> "user", content |-> text],
                            [role |-> "assistant", content |-> Str(THINKING_MSG)]>>
              answer == IF r.exc THEN Str(WEB_ERROR_MSG) ELSE Str(TECHNICAL_MSG)
          IN /\ calls' = calls + 1
             /\ cache' = r.cache
             /\ create_log' = IF r.tried THEN CreateAgentLog(create_log, s, TRUE)
                              ELSE create_log
             /\ IF r.exc \/ fmt.exc
                THEN /\ session_state' = [session_state EXCEPT ![s] =
                           [r.state EXCEPT
                               !.messages = UpdateLastAssistant(shown, Len(shown), answer),
                               !.last_error = IF r.exc THEN "Traceback" ELSE @]]
                     /\ inflight' = inflight
                ELSE /\ session_state' = [session_state EXCEPT ![s] =
                           [r.state EXCEPT !.messages = shown]]
                     /\ inflight' = [inflight EXCEPT ![s] =
                           [busy |-> TRUE, text |-> text, executor |-> r.executor,
                            passed |-> fmt.msgs, before |-> chat_history]]
    /\ UNCHANGED <<chat_history, agent_executor, last, log>>
    /\ UNCHANGED hostvars

(* invoke returns or raises, and the rest of chat() and of the submit      *)
(* handler runs: lines 662-690 of agent.py and 427-441 of app.py           *)
SubmitEnd(s) ==
    /\ inflight[s].busy
    /\ \E outcome \in WebOutcomes :
       \E output \in {RunAgent(outcome)} :
          LET ret == IF Truthy(output) THEN output ELSE Str(MENTOR_MSG)
              call == inflight[s]
          IN /\ chat_history' = UpdateHistory(chat_history, call.text, output)
             /\ log' = IF Storable(output)
                       THEN log \o <<Turn("human", call.text), Turn("assistant", ret)>>
                       ELSE log
             /\ last' = [done |-> TRUE, by |-> s, text |-> call.text,
                         executor |-> call.executor, outcome |-> outcome,
                         before |-> call.before, exc |-> FALSE, ret |-> ret,
                         appended |-> Storable(output), invoked |-> TRUE,
                         passed |-> call.passed, tried |-> FALSE]
             /\ session_state' = [session_state EXCEPT ![s].messages =
                   UpdateLastAssistant(@, Len(@), ret)]
             /\ inflight' = [inflight EXCEPT ![s] = Idle]
    /\ UNCHANGED <<agent_executor, create_log, calls, cache>>
    /\ UNCHANGED hostvars

(* The Clear button: lines 400-405 *)
WebClear(s) ==
    /\ session_state[s].agent_ready
    /\ ~inflight[s].busy
    /\ session_state[s].messages # <<>>
    /\ session_state' = [session_state EXCEPT ![s].messages = <<>>]
    /\ UNCHANGED <<chat_history, agent_executor, create_log, last, log, calls, cache,
                   inflight>>
    /\ UNCHANGED hostvars

NextWeb ==
    \E s \in Sessions : ScriptInit(s) \/ SubmitBegin(s) \/ SubmitEnd(s) \/ WebClear(s)

SpecWeb == InitWeb /\ [][NextWeb]_vars

-----------------------------------------------------------------------------
(* Text operations of Python used by the tools.  Pictographs of the source *)
(* texts are left out and its bullet and check marks are written * and +.  *)

UPPERCASE == "ABCDEFGHIJKLMNOPQRSTUVWXYZ"

LOWERCASE == "abcdefghijklmnopqrstuvwxyz"

IsUpper(c) == \E i \in 1..Len(UPPERCASE) : SubSeq(UPPERCASE, i, i) = c

IsLower(c) == \E i \in 1..Len(LOWERCASE) : SubSeq(LOWERCASE, i, i) = c

LowerChar(c) ==
    IF IsUpper(c)
    THEN LET i == CHOOSE k \in 1..Len(UPPERCASE) : SubSeq(UPPERCASE, k, k) = c
         IN SubSeq(LOWERCASE, i, i)
    ELSE c

UpperChar(c) ==
    IF IsLower(c)
    THEN LET i == CHOOSE k \in 1..Len(LOWERCASE) : SubSeq(LOWERCASE, k, k) = c
         IN SubSeq(UPPERCASE, i, i)
    ELSE c

(* str.lower() *)
RECURSIVE Lower(_)
Lower(t) ==
    IF t = "" THEN ""
    ELSE LowerChar(SubSeq(t, 1, 1)) \o Lower(SubSeq(t, 2, Len(t)))

(* str.title(): a letter that follows a letter is lower-cased, any other   *)
(* letter is upper-cased                                                   *)
RECURSIVE TitleFrom(_, _)
TitleFrom(t, afterLetter) ==
    IF t = "" THEN ""
    ELSE LET c == SubSeq(t, 1, 1)
             letter == IsUpper(c) \/ IsLower(c)
         IN (IF afterLetter THEN LowerChar(c) ELSE UpperChar(c))
               \o TitleFrom(SubSeq(t, 2, Len(t)), letter)

Title(t) == TitleFrom(t, FALSE)

(* key in text *)
Contains(text, key) ==
    \E i \in 1..(Len(text) - Len(key) + 1) : SubSeq(text, i, i + Len(key) - 1) = key

SliceOneMore(text, n) == IF Len(text) > n + 1 THEN SubSeq(text, 1, n + 1) ELSE text

(* text[:n] *)
Slice(text, n) == IF Len(text) > n THEN SubSeq(text, 1, n) ELSE text

(* The for loop over the keys of a dict, in insertion order, that stops at *)
(* the first key occurring in text; 0 when no key occurs                   *)
RECURSIVE FirstKeyFrom(_, _, _)
FirstKeyFrom(keys, i, text) ==
    IF i > Len(keys) THEN 0
    ELSE IF Contains(text, keys[i]) THEN i
    ELSE FirstKeyFrom(keys, i + 1, text)

-----------------------------------------------------------------------------
(* The tools keep no state: tool records the one call that is observed,    *)
(* its arguments, what its search did, and the pieces of the returned text *)
(* in the order the tool appends them.                                     *)

(* draft_professional_email(purpose, recipient, context) *)

TemplateKeysReversed == <<"networking", "professor", "internship">>

(* The keys of templates, in the order the dict literal lists them *)
TemplateKeys == <<"internship", "professor", "networking">>

Templates ==
    [internship |->
        [subject |-> "Application for [Position Name] - [Your Name]",
         head |-> "Dear [Recipient Name],\n\nI hope this email finds you well. ...\n\n",
         tail |-> "\n\nI am particularly drawn to [Company Name] ...\n\nBest regards,\n[Your Name]\n[Your Phone Number]\n[Your Email]\n[LinkedIn Profile]"],
     professor |->
        [subject |-> "Request for Meeting - [Your Name] from [Course Name]",
         head |-> "Dear Professor [Last Name],\n\nI hope you are doing well. ...\n\n",
         tail |-> "\n\nI was wondering if you might have time for a brief meeting ...\n\nRespectfully,\n[Your Name]\n[Student ID]\n[Your Email]"],
     networking |->
        [subject |-> "Seeking Advice from [Industry] Professional - [Your Name]",
         head |-> "Dear [Recipient Name],\n\nI hope this message finds you well. ...\n\n",
         tail |-> "\n\n...\n\nBest regards,\n[Your Name]\n[Your Email]\n[LinkedIn Profile]"]]

SelectTemplateCaseSensitive(purpose) ==
    LET i == FirstKeyFrom(TemplateKeys, 1, purpose)
    IN IF i = 0 THEN "internship" ELSE TemplateKeys[i]

(* template_key: lines 277-281 *)
SelectTemplate(purpose) ==
    LET i == FirstKeyFrom(TemplateKeys, 1, Lower(purpose))
    IN IF i = 0 THEN "internship" ELSE TemplateKeys[i]

EMAIL_TIPS ==
    <<"\n\nEmail Tips:\n",
      "+ Keep it concise (under 200 words)\n",
      "+ Proofread for grammar and spelling\n",
      "+ Use a professional email address\n",
      "+ Follow up after 5-7 days if no response\n",
      "+ Be respectful of their time\n">>

draft_professional_email(purpose, recipient, context) ==
    LET template_key == SelectTemplate(purpose)
        template == Templates[template_key]
        context_section ==
            IF context # "" THEN "\n" \o context \o "\n"
            ELSE "\n[Mention relevant experience, skills, or why you're reaching out]\n"
    IN [name |-> "draft_professional_email",
        args |-> <<purpose, recipient, context>>,
        search |-> NoSearch,
        exc |-> FALSE,
        key |-> template_key,
        parts |-> <<"Professional Email Template\n\n",
                    "Subject: " \o template.subject \o "\n\n",
                    template.head \o context_section \o template.tail>> \o EMAIL_TIPS]

Purposes ==
    { "internship inquiry", "INTERNSHIP application", "Professor meeting",
      "meeting with my PROFESSOR", "networking", "Networking coffee chat",
      "Ask my professor about an internship", "networking with a professor",
      "networking for an internship", "recommendation letter", "" }

Recipients == {"professor", "recruiter"}

Contexts == {"", "I took your course last term."}

DraftEmail ==
    /\ tool = NoTool
    /\ \E purpose \in Purposes, recipient \in Recipients, context \in Contexts :
          tool' = draft_professional_email(purpose, recipient, context)
    /\ UNCHANGED <<chat_history, agent_executor, create_log, last, log, calls,
                   session_state, cache, inflight, console, env>>

-----------------------------------------------------------------------------
(* optimize_linkedin_profile(section, field) *)

(* The keys of tips, in the order the dict literal lists them *)
TipKeys == <<"headline", "summary", "experience", "skills">>

(* The first line of each guidance text, up to the field *)
TipTitles ==
    [headline |-> "LinkedIn Headline Optimization for ",
     summary |-> "LinkedIn Summary Guide for ",
     experience |-> "Experience Section Tips for ",
     skills |-> "Skills Section Optimization for "]

(* The guidance text after the field *)
TipBodies ==
    [headline |-> ":\n\nYour headline should be more than just your title. ...\n",
     summary |-> ":\n\nYour summary should tell your story in 3-5 paragraphs: ...\n",
     experience |-> ":\n\n...\n",
     skills |-> ":\n\n...\n+ Include both technical and soft skills\n"]

LINKEDIN_FALLBACK_HEAD == "LinkedIn profile tip: Focus on making your profile complete, professional, and keyword-rich for "

LINKEDIN_FALLBACK_TAIL == ". Update all sections regularly!"

LinkedInIgnoringField(section, field) ==
    LET i == FirstKeyFrom(TipKeys, 1, Lower(section))
        text == IF i = 0
                THEN LINKEDIN_FALLBACK_HEAD \o "general" \o LINKEDIN_FALLBACK_TAIL
                ELSE TipTitles[TipKeys[i]] \o "general" \o TipBodies[TipKeys[i]]
    IN [name |-> "optimize_linkedin_profile", args |-> <<section, field>>,
        search |-> NoSearch, exc |-> FALSE, key |-> (IF i = 0 THEN "" ELSE TipKeys[i]), parts |-> <<text>>]

optimize_linkedin_profile(section, field) ==
    LET i == FirstKeyFrom(TipKeys, 1, Lower(section))
        text == IF i = 0
                THEN LINKEDIN_FALLBACK_HEAD \o field \o LINKEDIN_FALLBACK_TAIL
                ELSE TipTitles[TipKeys[i]] \o field \o TipBodies[TipKeys[i]]
    IN [name |-> "optimize_linkedin_profile", args |-> <<section, field>>,
        search |-> NoSearch, exc |-> FALSE, key |-> (IF i = 0 THEN "" ELSE TipKeys[i]), parts |-> <<text>>]

Sections ==
    { "Headline", "headline", "Summary", "my SUMMARY section", "experience",
      "Skills", "skills and experience", "summary headline", "education", "" }

Fields == {"Data Science", "general"}

OptimizeLinkedIn ==
    /\ tool = NoTool
    /\ \E section \in Sections, field \in Fields :
          tool' = optimize_linkedin_profile(section, field)
    /\ UNCHANGED <<chat_history, agent_executor, create_log, last, log, calls,
                   session_state, cache, inflight, console, env>>

-----------------------------------------------------------------------------
(* get_deadline_reminders(event_type) *)

deadlines_by_type ==
    [registration |->
        <<"Course Registration: Usually 2-4 weeks before semester starts",
          "Add/Drop Period: First 1-2 weeks of semester",
          "Late Registration Fee Deadline: Check your college calendar",
          "Major Declaration: Typically end of sophomore year">>,
     financial_aid |->
        <<"Scholarship Applications: Varies by scholarship (often fall semester)",
          "FAFSA/Government Aid: Check national/state deadlines",
          "Tuition Payment: Before semester starts",
          "Work-Study Applications: Early in semester">>,
     career |->
        <<"Career Fair Registration: 2-3 weeks before event",
          "Summer Internship Applications: October - February",
          "Resume Review Sessions: Ongoing, check career center",
          "On-Campus Recruitment: Varies by company">>,
     applications |->
        <<"Graduate School Applications: September - December",
          "Study Abroad Programs: 6-12 months in advance",
          "Research Opportunities: Rolling basis",
          "Leadership Positions: Varies by organization">>]

RelevantDeadlinesAnyCase(event_type) ==
    IF Lower(event_type) \in DOMAIN deadlines_by_type
    THEN deadlines_by_type[Lower(event_type)]
    ELSE deadlines_by_type["registration"]

(* deadlines_by_type.get(event_type, deadlines_by_type["registration"]) *)
RelevantDeadlines(event_type) ==
    IF event_type \in DOMAIN deadlines_by_type
    THEN deadlines_by_type[event_type]
    ELSE deadlines_by_type["registration"]

DEADLINE_TIPS ==
    <<"\n\nDeadline Management Tips:\n",
      "1. Use a digital calendar (Google Calendar) with notifications\n",
      "2. Set multiple reminders (1 month, 1 week, 1 day before)\n",
      "3. Create a semester timeline at the start\n",
      "4. Subscribe to college newsletter/announcements\n",
      "5. Join student groups for peer reminders\n",
      "6. Check your college portal weekly\n">>

get_deadline_reminders(event_type) ==
    LET relevant_deadlines == RelevantDeadlines(event_type)
    IN [name |-> "get_deadline_reminders", args |-> <<event_type>>,
        search |-> NoSearch, exc |-> FALSE, key |-> "",
        parts |-> <<"Important Deadlines & Reminders (" \o Title(event_type) \o ")\n\n">>
                  \o [i \in 1..Len(relevant_deadlines) |->
                         "* " \o relevant_deadlines[i] \o "\n"]
                  \o DEADLINE_TIPS]

EventTypes ==
    { "general", "registration", "financial_aid", "career", "applications",
      "Career", "REGISTRATION", "financial aid", "applications ", "exams", "" }

DeadlineReminders ==
    /\ tool = NoTool
    /\ \E event_type \in EventTypes : tool' = get_deadline_reminders(event_type)
    /\ UNCHANGED <<chat_history, agent_executor, create_log, last, log, calls,
                   session_state, cache, inflight, console, env>>

-----------------------------------------------------------------------------
(* The search-backed tools.  search is what tavily_tool.invoke did: it     *)
(* returned a value or raised an Exception.                                *)

InternshipSnippetLimit == 250

ScholarshipSnippetLimit == 250

RoadmapSnippetLimit == 200

ProcessSnippetLimit == 300

InternshipsShown == 5

ScholarshipsShown == 5

ResourcesShown == 6

ExcerptsShown == 3

(* One search result: a dict whose keys may be missing, or something else. *)
(* A key is the sequence of its value, empty when the key is missing.      *)
Hit(title, content, url) ==
    [type |-> "dict", title |-> title, content |-> content, url |-> url]

NotADict == [type |-> "str", title |-> <<>>, content |-> <<>>, url |-> <<>>]

(* result.get(key, default) *)
Get(value, default) == IF value = <<>> THEN default ELSE value[1]

RECURSIVE Flatten(_)
Flatten(seqs) == IF seqs = <<>> THEN <<>> ELSE Head(seqs) \o Flatten(Tail(seqs))

(* enumerate(results[:shown], 1) *)
Enumerated(results, shown) ==
    1..(IF Len(results.items) > shown THEN shown ELSE Len(results.items))

TryWithoutExcept(name, args, search, parts, fallback) ==
    IF search.kind = "raise"
    THEN [name |-> name, args |-> args, search |-> search, exc |-> TRUE, key |-> "",
          parts |-> <<>>]
    ELSE [name |-> name, args |-> args, search |-> search, exc |-> FALSE, key |-> "",
          parts |-> parts]

(* try: ... return text / except Exception as e: return fallback *)
TryExcept(name, args, search, parts, fallback) ==
    IF search.kind = "raise"
    THEN [name |-> name, args |-> args, search |-> search, exc |-> FALSE, key |-> "",
          parts |-> <<fallback>>]
    ELSE [name |-> name, args |-> args, search |-> search, exc |-> FALSE, key |-> "",
          parts |-> parts]

InternshipEntry(i, result) ==
    ToString(i) \o ". " \o Get(result.title, "Opportunity") \o "\n   "
       \o Slice(Get(result.content, ""), InternshipSnippetLimit) \o "...\n    "
       \o Get(result.url, "") \o "\n\n"

INTERNSHIP_TIPS ==
    <<"\nApplication Tips:\n",
      "- Tailor your resume for each application\n",
      "- Highlight relevant projects and coursework\n",
      "- Apply early and follow up\n",
      "- Prepare for technical/behavioral interviews\n">>

search_internships(field, location, experience_level, search) ==
    LET results == search.value
        entries ==
            IF results.type = "list"
            THEN Flatten([i \in Enumerated(results, InternshipsShown) |->
                            IF results.items[i].type = "dict"
                            THEN <<InternshipEntry(i, results.items[i])>>
                            ELSE <<>>])
            ELSE <<>>
    IN TryExcept("search_internships", <<field, location, experience_level>>, search,
          IF Truthy(results)
          THEN <<"Internship Opportunities in " \o field \o " (" \o location \o "):\n\n">>
                  \o entries \o INTERNSHIP_TIPS
          ELSE <<"Consider exploring platforms like Internshala, LinkedIn, and company career pages for "
                    \o field \o " internships in " \o location \o ".">>,
          "Error searching internships: " \o search.err
             \o ". Try checking Internshala, LinkedIn, and Naukri.com for opportunities.")

ScholarshipEntry(i, result) ==
    ToString(i) \o ". " \o Get(result.title, "Scholarship") \o "\n   "
       \o Slice(Get(result.content, ""), ScholarshipSnippetLimit) \o "...\n    "
       \o Get(result.url, "") \o "\n\n"

search_scholarships(category, field, search) ==
    LET results == search.value
        entries ==
            IF results.type = "list"
            THEN Flatten([i \in Enumerated(results, ScholarshipsShown) |->
                            IF results.items[i].type = "dict"
                            THEN <<ScholarshipEntry(i, results.items[i])>>
                            ELSE <<>>])
            ELSE <<>>
    IN TryExcept("search_scholarships", <<category, field>>, search,
          IF Truthy(results)
          THEN <<"Scholarship Opportunities (" \o category \o " - " \o field \o "):\n\n">>
                  \o entries
          ELSE <<"Explore government scholarships (NSP, AICTE), private scholarships, and university-specific aid programs.">>,
          "Error searching scholarships: " \o search.err
             \o ". Check National Scholarship Portal and your institution's financial aid office.")

(* '='*60 *)
RULE == "============================================================"

Stages(current_level) ==
    IF Lower(current_level) = "beginner"
    THEN << <<"Stage 1: Foundations", "1-2 months">>,
            <<"Stage 2: Core Concepts", "2-3 months">>,
            <<"Stage 3: Practical Application", "2-3 months">>,
            <<"Stage 4: Advanced Topics", "3-4 months">> >>
    ELSE IF Lower(current_level) = "intermediate"
    THEN << <<"Stage 1: Review & Strengthen", "2-3 weeks">>,
            <<"Stage 2: Advanced Concepts", "2-3 months">>,
            <<"Stage 3: Specialization", "3-4 months">>,
            <<"Stage 4: Expert Projects", "2-3 months">> >>
    ELSE << <<"Stage 1: Expert-Level Topics", "2-3 months">>,
            <<"Stage 2: Research & Innovation", "3-4 months">>,
            <<"Stage 3: Contribution & Teaching", "Ongoing">> >>

ResourceEntry(i, result) ==
    << ToString(i) \o ". " \o Get(result.title, "Resource") \o "\n",
       "    " \o Slice(Get(result.content, ""), RoadmapSnippetLimit) \o "...\n",
       "    " \o Get(result.url, "") \o "\n\n" >>

ROADMAP_TIPS ==
    <<"\nLearning Tips:\n",
      "+ Set aside dedicated study time daily (1-2 hours minimum)\n",
      "+ Build projects to apply what you learn\n",
      "+ Join online communities (Reddit, Discord, Stack Overflow)\n",
      "+ Track your progress and celebrate milestones\n",
      "+ Don't hesitate to revisit fundamentals\n",
      "+ Teach others - it reinforces your learning\n">>

get_learning_roadmap(topic, current_level, search) ==
    LET results == search.value
        stages == Stages(current_level)
        entries ==
            IF Truthy(results) /\ results.type = "list"
            THEN Flatten([i \in Enumerated(results, ResourcesShown) |->
                            IF results.items[i].type = "dict"
                            THEN ResourceEntry(i, results.items[i])
                            ELSE <<>>])
            ELSE <<>>
    IN TryExcept("get_learning_roadmap", <<topic, current_level>>, search,
          <<"Learning Roadmap: " \o topic \o "\n",
            "Starting Level: " \o Title(current_level) \o "\n\n">>
             \o Flatten([k \in 1..Len(stages) |->
                           <<"\n" \o RULE \o "\n",
                             stages[k][1] \o " (" \o stages[k][2] \o ")\n",
                             RULE \o "\n">>])
             \o <<"\n\nRecommended Learning Resources:\n\n">>
             \o entries \o ROADMAP_TIPS,
          "Error generating roadmap: " \o search.err
             \o ". I recommend starting with free platforms like Coursera, edX, and YouTube.")

ExcerptEntry(result) ==
    IF Get(result.content, "") # ""
    THEN << Slice(Get(result.content, ""), ProcessSnippetLimit) \o "...\n\n",
            "Source: " \o Get(result.url, "") \o "\n\n" >>
    ELSE <<>>

PROCESS_TIPS ==
    <<"General Tips:\n",
      "+ Read your college handbook/website thoroughly\n",
      "+ Contact your academic advisor for personalized guidance\n",
      "+ Mark important deadlines in your calendar\n",
      "+ Keep copies of all important documents\n",
      "+ Don't hesitate to ask for help from college staff\n">>

explain_college_process(process, context, search) ==
    LET results == search.value
        entries ==
            IF Truthy(results) /\ results.type = "list"
            THEN Flatten([i \in Enumerated(results, ExcerptsShown) |->
                            IF results.items[i].type = "dict"
                            THEN ExcerptEntry(results.items[i])
                            ELSE <<>>])
            ELSE <<>>
    IN TryExcept("explain_college_process", <<process, context>>, search,
          <<"Understanding: " \o Title(process) \o "\n\n">> \o entries \o PROCESS_TIPS,
          "For information about " \o process
             \o ", please check your college's official website or contact the administrative office. They can provide specific guidance for your situation.")

(* The most results in a list of freely chosen results *)
MaxResults == 2

FILLER == "Lorem ipsum dolor sit amet, consectetur adipiscing"

(* A text of n characters *)
RECURSIVE Fill(_)
Fill(n) ==
    IF n > Len(FILLER) THEN FILLER \o Fill(n - Len(FILLER)) ELSE SubSeq(FILLER, 1, n)

(* Snippets around a limit: none, short, exactly the limit, longer *)
Contents(limit) ==
    { "", "Apply by March.", Fill(limit), Fill(limit) \o "Z",
      Fill(limit) \o " and a long tail of further text" }

LINK == "https://example.org/opportunities/2025/listing?id=12345&ref=search"

Hits(limit) ==
    {Hit(<<"Data Analyst Intern">>, <<content>>, <<LINK>>) : content \in Contents(limit)}
       \cup {Hit(<<>>, <<>>, <<>>), NotADict}

(* More results than the tool shows, each with a snippet beyond the limit *)
ManyHits(limit, shown) ==
    [i \in 1..(shown + 1) |->
        Hit(<<"Result " \o ToString(i)>>, <<Fill(limit) \o " tail " \o ToString(i)>>,
            <<LINK \o "&n=" \o ToString(i)>>)]

SearchErrors == {"HTTPError: 432 Client Error", "Read timed out."}

SearchOutcomes(limit, shown) ==
    {Return(List(hits)) : hits \in UNION {[1..n -> Hits(limit)] : n \in 0..MaxResults}}
       \cup {Return(List(ManyHits(limit, shown))), Return(Str("HTTPError('502 Bad Gateway')")),
             Return(None)}
       \cup {Raise(e) : e \in SearchErrors}

Levels == {"beginner", "Intermediate", "advanced"}

SearchInternships ==
    /\ tool = NoTool
    /\ \E field \in Fields,
          search \in SearchOutcomes(InternshipSnippetLimit, InternshipsShown) :
          tool' = search_internships(field, "India", "beginner", search)
    /\ UNCHANGED <<chat_history, agent_executor, create_log, last, log, calls,
                   session_state, cache, inflight, console, env>>

SearchScholarships ==
    /\ tool = NoTool
    /\ \E search \in SearchOutcomes(ScholarshipSnippetLimit, ScholarshipsShown) :
          tool' = search_scholarships("general", "any", search)
    /\ UNCHANGED <<chat_history, agent_executor, create_log, last, log, calls,
                   session_state, cache, inflight, console, env>>

LearningRoadmap ==
    /\ tool = NoTool
    /\ \E current_level \in Levels,
          search \in SearchOutcomes(RoadmapSnippetLimit, ResourcesShown) :
          tool' = get_learning_roadmap("Python", current_level, search)
    /\ UNCHANGED <<chat_history, agent_executor, create_log, last, log, calls,
                   session_state, cache, inflight, console, env>>

ExplainProcess ==
    /\ tool = NoTool
    /\ \E search \in SearchOutcomes(ProcessSnippetLimit, ExcerptsShown) :
          tool' = explain_college_process("course registration", "India", search)
    /\ UNCHANGED <<chat_history, agent_executor, create_log, last, log, calls,
                   session_state, cache, inflight, console, env>>

InitTools ==
    /\ chat_history = <<>>
    /\ log = <<>>
    /\ agent_executor = NoHandle
    /\ create_log = <<>>
    /\ last = NoCall
    /\ calls = 0
    /\ WebIdle
    /\ env = Credentials

NextTools ==
    \/ SearchInternships
    \/ SearchScholarships
    \/ LearningRoadmap
    \/ DraftEmail
    \/ OptimizeLinkedIn
    \/ ExplainProcess
    \/ DeadlineReminders

SpecTools == InitTools /\ [][NextTools]_vars

-----------------------------------------------------------------------------
(* The interactive console: the __main__ block of agent.py *)

(* The most lines the console reads *)
MaxLines == 3

WHITESPACE == {" ", "\t"}

RECURSIVE LStrip(_)
LStrip(t) ==
    IF t # "" /\ SubSeq(t, 1, 1) \in WHITESPACE THEN LStrip(SubSeq(t, 2, Len(t))) ELSE t

RECURSIVE RStrip(_)
RStrip(t) ==
    IF t # "" /\ SubSeq(t, Len(t), Len(t)) \in WHITESPACE
    THEN RStrip(SubSeq(t, 1, Len(t) - 1))
    ELSE t

(* str.strip() *)
Strip(t) == RStrip(LStrip(t))

Line(t) == [kind |-> "line", text |-> t]

EndOfFile == [kind |-> "EOFError", text |-> ""]

KeyboardInterrupt == [kind |-> "KeyboardInterrupt", text |-> ""]

ConsoleInputs ==
    {Line(t) : t \in {"quit", "exit", "q", " QUIT ", "clear", " Clear ", "", "   ",
                      "How do I register for courses?", "please clear my doubts"}}
       \cup {EndOfFile, KeyboardInterrupt}

(* Ctrl-C while chat() waits for agent_executor.invoke *)
Interrupted == [kind |-> "KeyboardInterrupt", value |-> None, err |-> ""]

ConsoleOutcomes == WebOutcomes \cup {Interrupted}

FAREWELL == "\nTake care! Remember, I'm always here when you need guidance."

CLEARED_MSG == "\nChat history cleared!\n"

INTERRUPTED_MSG == "\n\nInterrupted. Type 'quit' to exit.\n"

MENTOR_LABEL == "\nAI Mentor: "

Exited(status, texts) ==
    [pc |-> "exited", status |-> status, reads |-> console.reads, read |-> console.read,
     returned |-> FALSE, printed |-> texts]

(* Lines 711-730: the credential checks and create_agent() *)
ConsoleStart ==
    /\ console.pc = "off"
    /\ \E ok \in CreateAgentOutcomes(env) :
          IF "GROQ_API_KEY" \notin env
          THEN /\ console' = Exited(1, <<"\nGROQ_API_KEY not found in .env file!">>)
               /\ UNCHANGED <<agent_executor, create_log>>
          ELSE IF "TAVILY_API_KEY" \notin env
          THEN /\ console' = Exited(1, <<"\nTAVILY_API_KEY not found in .env file!">>)
               /\ UNCHANGED <<agent_executor, create_log>>
          ELSE /\ create_log' = CreateAgentLog(create_log, "caller", ok)
               /\ IF ok
                  THEN /\ agent_executor' = NewHandle(create_log)
                       /\ console' = [console EXCEPT !.pc = "loop",
                                                     !.printed = <<"AI Mentor ready!\n">>]
                  ELSE /\ agent_executor' = agent_executor
                       /\ console' = Exited(1, <<"\nFailed to initialize agent: ">>)
    /\ UNCHANGED <<chat_history, last, log, calls, session_state, cache, inflight, tool,
                   env>>

CommandWithoutClear(user_input) ==
    IF user_input = "" THEN "continue"
    ELSE IF Lower(user_input) \in {"quit", "exit", "q"} THEN "break"
    ELSE "chat"

(* Lines 746-756: what the loop does with the stripped line *)
Command(user_input) ==
    IF user_input = "" THEN "continue"
    ELSE IF Lower(user_input) \in {"quit", "exit", "q"} THEN "break"
    ELSE IF Lower(user_input) = "clear" THEN "clear"
    ELSE "chat"

(* The pass of the loop has read `read` and goes on reading *)
Looping(read, returned, texts) ==
    [pc |-> "loop", status |-> console.status, reads |-> console.reads + 1,
     read |-> read, returned |-> returned, printed |-> texts]

(* The pass of the loop has read `read` and left the loop: the script ends *)
Broken(read) ==
    [pc |-> "exited", status |-> 0, reads |-> console.reads + 1,
     read |-> read, returned |-> FALSE, printed |-> <<FAREWELL>>]

(* Lines 758-764: chat() is called and its reply printed *)
ConsoleChat(read, user_input, outcome) ==
    IF outcome.kind = "KeyboardInterrupt"
    THEN /\ console' = Looping(read, FALSE, <<INTERRUPTED_MSG>>)
         /\ calls' = calls + 1
         /\ UNCHANGED <<chat_history, create_log, last, log>>
    ELSE \E r \in {chat(chat_history, Str(user_input), agent_executor, TRUE, outcome)} :
            /\ chat_history' = r.history
            /\ create_log' = IF r.tried THEN CreateAgentLog(create_log, "caller", TRUE)
                             ELSE create_log
            /\ last' = [done |-> TRUE, by |-> "caller", text |-> Str(user_input),
                        executor |-> agent_executor, outcome |-> outcome,
                        before |-> chat_history, exc |-> r.exc, ret |-> r.ret,
                        appended |-> r.appended, invoked |-> r.invoked,
                        passed |-> r.passed, tried |-> r.tried]
            /\ log' = IF r.appended
                      THEN log \o <<Turn("human", Str(user_input)), Turn("assistant", r.ret)>>
                      ELSE log
            /\ calls' = calls + 1
            /\ console' = IF r.exc
                          THEN Looping(read, FALSE, <<"\nError: \n">>)
                          ELSE Looping(read, TRUE, <<MENTOR_LABEL \o r.ret.s \o "\n">>)

(* One pass of the while loop, lines 739-764 *)
ConsoleLine ==
    /\ console.pc = "loop"
    /\ console.reads < MaxLines
    /\ \E read \in ConsoleInputs :
          IF read.kind # "line"
          THEN /\ console' = Broken(read)
               /\ UNCHANGED <<chat_history, create_log, last, log, calls>>
          ELSE \E user_input \in {Strip(read.text)} :
                 CASE Command(user_input) = "continue" ->
                        /\ console' = Looping(read, FALSE, <<>>)
                        /\ UNCHANGED <<chat_history, create_log, last, log, calls>>
                   [] Command(user_input) = "break" ->
                        /\ console' = Broken(read)
                        /\ UNCHANGED <<chat_history, create_log, last, log, calls>>
                   [] Command(user_input) = "clear" ->
                        /\ chat_history' = <<>>
                        /\ log' = <<>>
                        /\ console' = Looping(read, FALSE, <<CLEARED_MSG>>)
                        /\ UNCHANGED <<create_log, last, calls>>
                   [] Command(user_input) = "chat" ->
                        \E outcome \in ConsoleOutcomes :
                           ConsoleChat(read, user_input, outcome)
    /\ UNCHANGED <<agent_executor, session_state, cache, inflight, tool, env>>

InitConsole ==
    /\ chat_history = <<>>
    /\ log = <<>>
    /\ agent_executor = NoHandle
    /\ create_log = <<>>
    /\ last = NoCall
    /\ calls = 0
    /\ WebIdle
    /\ env \in Environments

NextConsole == ConsoleStart \/ ConsoleLine

SpecConsole == InitConsole /\ [][NextConsole]_vars

-----------------------------------------------------------------------------
(* The program started in some environment, as the console (python         *)
(* agent.py) or as the web interface (streamlit run app.py): the steps of  *)
(* one host are taken only while the other host has not started.           *)

WebNotStarted == \A i \in 1..Len(create_log) : create_log[i].by = "caller"

ConsoleNotStarted == console.pc = "off"

NextProgram ==
    \/ WebNotStarted /\ NextConsole
    \/ ConsoleNotStarted /\ NextWeb

SpecProgram == InitConsole /\ [][NextProgram]_vars

-----------------------------------------------------------------------------
(* Properties of the history cap *)

Min(a, b) == IF a < b THEN a ELSE b

(* C1: in every state reached by chat() calls and clears, the stored       *)
(* history holds at most 30 turns.                                         *)
HistoryWithinCap == Len(chat_history) <= 30

(* A call that appended to a full history has returned *)
TrimmedAtCap ==
    /\ last.done /\ last.appended
    /\ Len(last.before) = 30
    /\ Len(chat_history) = 30

(* C2: after N completed exchanges on an initially empty history, the      *)
(* history holds min(2*N, 30) turns.                                       *)
LengthIsMinOfExchanges ==
    LET N == Len(log) \div 2
    IN /\ Len(log) = 2 * N
       /\ Len(chat_history) = Min(2 * N, 30)

(* The sixteenth or a later exchange has just been completed *)
ExchangeBeyondCap ==
    /\ last.done /\ last.appended
    /\ Len(log) \div 2 > 15

(* C3: the history is the newest part of what was appended, in order: the  *)
(* turns dropped are the oldest ones, the pair just appended is last, and  *)
(* after more than 15 exchanges exactly the last 15 exchanges remain.      *)
SlidingWindow ==
    LET n == Len(chat_history)
        m == Len(log)
    IN /\ n <= m
       /\ \A i \in 1..n : chat_history[i] = log[m - n + i]
       /\ (m > 30 => n = 30)
       /\ (last.done /\ last.appended) =>
             /\ n >= 2
             /\ chat_history[n - 1] = Turn("human", last.text)
             /\ chat_history[n] = Turn("assistant", last.ret)

(* An exchange was appended to a history that already held 30 turns, whose *)
(* oldest turn is therefore gone                                           *)
OldestDropped ==
    /\ last.done /\ last.appended
    /\ Len(last.before) = 30
    /\ chat_history[1] = last.before[3]
    /\ chat_history[1] # last.before[1]

-----------------------------------------------------------------------------
(* Properties of one chat() call *)

(* C4: chat() returns a non-empty text and lets no exception out, whatever *)
(* the input, the outcome of invoke and the content of the history.        *)
ChatTotal ==
    last.done =>
        /\ ~last.exc
        /\ last.ret.type = "str"
        /\ last.ret.s # ""

(* chat() has returned after the formatting of a malformed history failed *)
FormatFailureAnswered ==
    /\ last.done
    /\ FormatHistory(last.before).exc
    /\ last.ret = Str(TECHNICAL_MSG)

(* The text t starts with the text p and the rest of it is the text e *)
MadeOf(t, p, e) ==
    /\ Len(t) = Len(p) + Len(e)
    /\ SubSeq(t, 1, Len(p)) = p
    /\ SubSeq(t, Len(p) + 1, Len(t)) = e

(* The history is the history before the call plus the pair (user text,    *)
(* returned text) at its end, cut to the newest 30 turns                   *)
PairAppended ==
    LET n == Len(chat_history)
        m == Len(last.before)
    IN /\ n = Min(m + 2, 30)
       /\ chat_history[n - 1] = Turn("human", last.text)
       /\ chat_history[n] = Turn("assistant", last.ret)
       /\ \A i \in 1..(n - 2) : chat_history[i] = last.before[m - (n - 2) + i]

(* C5: when invoke raises, chat() returns the apology followed by the      *)
(* text of the error, raises nothing, and the history gains the user text  *)
(* and that reply as its two newest turns.                                 *)
LoopErrorFallback ==
    (last.done /\ last.invoked /\ last.outcome.kind = "raise") =>
        /\ ~last.exc
        /\ last.ret.type = "str"
        /\ MadeOf(last.ret.s, FALLBACK_PREFIX, last.outcome.err)
        /\ PairAppended

(* invoke raised with a non-empty error text on a non-empty history *)
LoopErrorSeen ==
    /\ last.done /\ last.invoked
    /\ last.outcome.kind = "raise"
    /\ last.outcome.err # ""
    /\ last.before # <<>>

(* C6: the reply for a value returned by invoke: None gives the rephrase   *)
(* text; a dict gives its 'output', or the default text when that is       *)
(* missing or empty; an object with an output attribute gives that         *)
(* attribute as text; a string is used as it is; anything else gives its   *)
(* str(); an empty or non-text candidate gives the encouragement text.     *)
ReplyPrecedence ==
    (last.done /\ last.invoked /\ last.outcome.kind = "return") =>
        LET v == last.outcome.value
            TextOr(t) == IF t = "" THEN Str(ENCOURAGE_MSG) ELSE Str(t)
        IN last.ret =
             CASE v.type = "NoneType" -> Str(REPHRASE_MSG)
               [] v.type = "dict" /\ v.items = <<>> -> Str(TROUBLE_MSG)
               [] v.type = "dict" /\ v.items # <<>> ->
                     LET field == v.items[1]
                     IN IF field.type = "str"
                        THEN (IF field.s = "" THEN Str(TROUBLE_MSG) ELSE field)
                        ELSE IF field.type = "NoneType" THEN Str(TROUBLE_MSG)
                        ELSE Str(ENCOURAGE_MSG)
               [] v.type = "object" /\ v.items # <<>> /\ v.items[1].type # "NoneType" ->
                     TextOr(v.items[1].s)
               [] OTHER -> TextOr(v.s)

(* invoke returned a dict whose 'output' is not a text *)
NonTextFieldSeen ==
    /\ last.done /\ last.invoked
    /\ last.outcome.kind = "return"
    /\ last.outcome.value.type = "dict"
    /\ last.outcome.value.items # <<>>
    /\ last.outcome.value.items[1].type = "list"

(* C7 as stated: every chat() call appends the pair exactly when the reply *)
(* it produced is non-empty and not the sentinel, and leaves the history   *)
(* as it was otherwise.                                                    *)
AppendsIffReplyStorable ==
    last.done =>
        IF last.ret.s # "" /\ last.ret # Str(SENTINEL)
        THEN PairAppended
        ELSE chat_history = last.before

(* C7 amended: a call that reached invoke appends the pair exactly when    *)
(* the reply is non-empty and not the sentinel; with the sentinel the      *)
(* history is unchanged and the sentinel is returned; a call that failed   *)
(* before invoke appends nothing.                                          *)
AppendsIffReplyStorableWhenInvoked ==
    /\ (last.done /\ last.invoked) =>
          /\ last.appended <=> (last.ret.s # "" /\ last.ret # Str(SENTINEL))
          /\ IF last.ret.s # "" /\ last.ret # Str(SENTINEL)
             THEN PairAppended
             ELSE /\ chat_history = last.before
                  /\ last.ret = Str(SENTINEL)
    /\ (last.done /\ ~last.invoked) =>
          /\ chat_history = last.before
          /\ last.ret = Str(TECHNICAL_MSG)

(* The sentinel was returned on a non-empty history *)
SentinelReturned ==
    /\ last.done /\ last.invoked
    /\ last.ret = Str(SENTINEL)
    /\ last.before # <<>>

(* C8: what invoke receives as chat_history: the human turns and the       *)
(* assistant turns with a non-empty text, in their stored order; every     *)
(* other entry is dropped and causes no error reply.                       *)
IsPair(e) == e.type = "tuple" /\ Len(e.items) = 2

IsHumanTurn(e) == IsPair(e) /\ e.items[1] = Str("human")

IsTextAssistantTurn(e) ==
    /\ IsPair(e)
    /\ e.items[1] = Str("assistant")
    /\ e.items[2].type = "str"
    /\ e.items[2].s # ""

Kept(e) == IsHumanTurn(e) \/ IsTextAssistantTurn(e)

-----------------------------------------------------------------------------
(* Properties of the construction of the agent executor *)

(* C9: once a create_agent() call made for a session has succeeded, no     *)
(* later call of that session, chat(user_input, None) included, calls      *)
(* create_agent() again.                                                   *)
ConstructedAtMostOnce ==
    \A i \in 1..Len(create_log) : \A j \in (i + 1)..Len(create_log) :
        ~(create_log[i].ok /\ create_log[j].by = create_log[i].by)

-----------------------------------------------------------------------------
(* Properties of the reset action and of the sessions' histories *)

(* C11: the reset action, here the Clear button of the web interface,      *)
(* leaves the history that chat() reads with length 0.                     *)
ResetEmptiesHistory ==
    [][(\E s \in Sessions : WebClear(s)) => chat_history' = <<>>]_vars

(* C12: the history that a chat() call made for one session passes to      *)
(* invoke holds no turn of another session.                                *)
SessionsIsolated ==
    (last.done /\ last.by \in Sessions) =>
        \A i \in 1..Len(last.passed) :
            last.passed[i].cls = "HumanMessage" =>
                last.passed[i].content \in SessionInputs(last.by)

(* C13: at most one chat() call is between its reading of chat_history and *)
(* its update of it.                                                       *)
ChatCallsSerialized ==
    Cardinality({s \in Sessions : inflight[s].busy}) <= 1

-----------------------------------------------------------------------------
(* Properties of the tools *)

Drafted == tool.name = "draft_professional_email"

Mentions(text, key) == Contains(Lower(text), key)

(* C14 as stated: a purpose that contains 'professor' in any letter case   *)
(* always gets the professor template.                                     *)
ProfessorPurposeGetsProfessorTemplate ==
    (Drafted /\ Mentions(tool.args[1], "professor")) =>
        /\ tool.key = "professor"
        /\ tool.parts[2] = "Subject: " \o Templates["professor"].subject \o "\n\n"

(* C14: a purpose that contains 'professor' in any letter case and does    *)
(* not contain 'internship' gets the professor template.                   *)
ProfessorPurposeWithoutInternshipGetsProfessorTemplate ==
    (Drafted /\ Mentions(tool.args[1], "professor")
             /\ ~Mentions(tool.args[1], "internship")) =>
        /\ tool.key = "professor"
        /\ tool.parts[2] = "Subject: " \o Templates["professor"].subject \o "\n\n"

UpperCaseProfessorDrafted ==
    /\ Drafted
    /\ Mentions(tool.args[1], "professor")
    /\ ~Contains(tool.args[1], "professor")
    /\ ~Mentions(tool.args[1], "internship")
    /\ tool.key = "professor"

(* The template the key order internship, professor, networking selects *)
TemplateByOrder(purpose) ==
    IF Mentions(purpose, "internship") THEN "internship"
    ELSE IF Mentions(purpose, "professor") THEN "professor"
    ELSE IF Mentions(purpose, "networking") THEN "networking"
    ELSE "internship"

(* C15: the template is the first of internship, professor, networking     *)
(* that occurs in the lower-cased purpose, internship when none occurs, so *)
(* it is a function of the purpose alone.                                  *)
TemplateIsFirstKeyInOrder ==
    Drafted =>
        /\ tool.key = TemplateByOrder(tool.args[1])
        /\ tool.parts[2] = "Subject: " \o Templates[tool.key].subject \o "\n\n"
        /\ \A recipient \in Recipients, context \in Contexts :
              draft_professional_email(tool.args[1], recipient, context).key = tool.key

TwoKeysInPurpose ==
    /\ Drafted
    /\ Mentions(tool.args[1], "networking")
    /\ Mentions(tool.args[1], "professor")
    /\ tool.key = "professor"

Reminded == tool.name = "get_deadline_reminders"

Bullets(list) == [i \in 1..Len(list) |-> "* " \o list[i] \o "\n"]

(* The deadline lines of the reply: what lies between the header and the tips *)
ListedDeadlines == SubSeq(tool.parts, 2, Len(tool.parts) - Len(DEADLINE_TIPS))

(* C16: an event type that is exactly one of registration, financial_aid,  *)
(* career, applications lists that category's deadlines; every other       *)
(* value, 'general' and other letter cases included, lists the             *)
(* registration deadlines.                                                 *)
DeadlinesByExactKey ==
    Reminded =>
        LET event_type == tool.args[1]
        IN /\ event_type = "registration" =>
                 ListedDeadlines = Bullets(deadlines_by_type["registration"])
           /\ event_type = "financial_aid" =>
                 ListedDeadlines = Bullets(deadlines_by_type["financial_aid"])
           /\ event_type = "career" =>
                 ListedDeadlines = Bullets(deadlines_by_type["career"])
           /\ event_type = "applications" =>
                 ListedDeadlines = Bullets(deadlines_by_type["applications"])
           /\ event_type \notin {"registration", "financial_aid", "career", "applications"} =>
                 ListedDeadlines = Bullets(deadlines_by_type["registration"])

OtherCaseFallsBack ==
    /\ Reminded
    /\ tool.args[1] = "Career"
    /\ ListedDeadlines = Bullets(deadlines_by_type["registration"])
    /\ ListedDeadlines # Bullets(deadlines_by_type["career"])

Optimized == tool.name = "optimize_linkedin_profile"

(* The section key the order headline, summary, experience, skills selects *)
TipByOrder(section) ==
    IF Mentions(section, "headline") THEN "headline"
    ELSE IF Mentions(section, "summary") THEN "summary"
    ELSE IF Mentions(section, "experience") THEN "experience"
    ELSE IF Mentions(section, "skills") THEN "skills"
    ELSE ""

StartsWith(text, prefix) == Slice(text, Len(prefix)) = prefix

(* C17: the guidance is that of the first of headline, summary,            *)
(* experience, skills occurring in the lower-cased section, with the field *)
(* substituted; when none occurs it is the generic tip, which contains the *)
(* field.                                                                  *)
LinkedInFirstKeyInOrder ==
    Optimized =>
        LET section == tool.args[1]
            field == tool.args[2]
            key == TipByOrder(section)
        IN /\ tool.key = key
           /\ Len(tool.parts) = 1
           /\ key # "" => StartsWith(tool.parts[1], TipTitles[key] \o field \o ":")
           /\ key = "" =>
                 tool.parts[1] = LINKEDIN_FALLBACK_HEAD \o field \o LINKEDIN_FALLBACK_TAIL

TwoKeysInSection ==
    /\ Optimized
    /\ tool.args[1] = "skills and experience"
    /\ tool.args[2] = "Data Science"
    /\ tool.key = "experience"
    /\ Contains(tool.parts[1], "Data Science")

Searched ==
    tool.name \in {"search_internships", "search_scholarships", "get_learning_roadmap",
                   "explain_college_process"}

(* The snippet limit and the number of results shown, as the claim gives them *)
LimitOf(name) ==
    CASE name = "search_internships" -> 250
      [] name = "search_scholarships" -> 250
      [] name = "get_learning_roadmap" -> 200
      [] name = "explain_college_process" -> 300

ShownOf(name) ==
    CASE name = "search_internships" -> 5
      [] name = "search_scholarships" -> 5
      [] name = "get_learning_roadmap" -> 6
      [] name = "explain_college_process" -> 3

(* The results a digest shows: the dicts among the first ShownOf results *)
ShownResults ==
    IF Searched /\ tool.search.kind = "return" /\ tool.search.value.type = "list"
    THEN {i \in 1..Len(tool.search.value.items) :
             /\ i <= ShownOf(tool.name)
             /\ tool.search.value.items[i].type = "dict"}
    ELSE {}

LongSnippet(i) ==
    LET result == tool.search.value.items[i]
    IN result.content # <<>> /\ Len(result.content[1]) > LimitOf(tool.name)

EndsWith(text, suffix) ==
    /\ Len(text) >= Len(suffix)
    /\ SubSeq(text, Len(text) - Len(suffix) + 1, Len(text)) = suffix

(* The text returned by the tool *)
RECURSIVE JoinFrom(_, _)
JoinFrom(parts, k) == IF k > Len(parts) THEN "" ELSE parts[k] \o JoinFrom(parts, k + 1)

(* The digest holds, next to each other, the first limit characters of the *)
(* snippet of result i, the ellipsis, and then the whole link              *)
TruncatedThenLink(i) ==
    LET result == tool.search.value.items[i]
        limit == LimitOf(tool.name)
        cut == SubSeq(result.content[1], 1, limit)
        url == Get(result.url, "")
    IN /\ Len(cut) = limit
       /\ \E k \in 1..Len(tool.parts) :
             CASE tool.name \in {"search_internships", "search_scholarships"} ->
                    EndsWith(tool.parts[k],
                             "\n   " \o cut \o "...\n    " \o url \o "\n\n")
               [] tool.name = "get_learning_roadmap" ->
                    /\ k < Len(tool.parts)
                    /\ tool.parts[k] = "    " \o cut \o "...\n"
                    /\ tool.parts[k + 1] = "    " \o url \o "\n\n"
               [] tool.name = "explain_college_process" ->
                    /\ k < Len(tool.parts)
                    /\ tool.parts[k] = cut \o "...\n\n"
                    /\ tool.parts[k + 1] = "Source: " \o url \o "\n\n"

(* C18: in the digest of each of the four search-backed tools, a shown     *)
(* result whose snippet is longer than the tool's limit (250 internships   *)
(* and scholarships, 200 roadmap, 300 college process) appears as exactly  *)
(* its first limit characters followed by the ellipsis, and its link       *)
(* appears in full.                                                        *)
SnippetsTruncatedLinksWhole ==
    \A i \in ShownResults : LongSnippet(i) => TruncatedThenLink(i)

LongSnippetsShown ==
    /\ Searched
    /\ tool.name = "explain_college_process"
    /\ Cardinality({i \in ShownResults : LongSnippet(i)}) = ShownOf(tool.name)
    /\ Len(tool.search.value.items) > ShownOf(tool.name)
    /\ \A i \in ShownResults : Contains(JoinFrom(tool.parts, 1), tool.search.value.items[i].url[1])

SearchRaised == Searched /\ tool.search.kind = "raise"

(* The call the state records, made again with another search outcome *)
SameCallWith(search) ==
    CASE tool.name = "search_internships" ->
           search_internships(tool.args[1], tool.args[2], tool.args[3], search)
      [] tool.name = "search_scholarships" ->
           search_scholarships(tool.args[1], tool.args[2], search)
      [] tool.name = "get_learning_roadmap" ->
           get_learning_roadmap(tool.args[1], tool.args[2], search)
      [] tool.name = "explain_college_process" ->
           explain_college_process(tool.args[1], tool.args[2], search)

(* C19 as stated: when the search raises, each of the four search-backed   *)
(* tools does not raise and returns a static text, the same text whatever  *)
(* the error is.                                                           *)
SearchFailureTextStatic ==
    SearchRaised =>
        /\ ~tool.exc
        /\ Len(tool.parts) = 1
        /\ \A e \in SearchErrors : SameCallWith(Raise(e)).parts = tool.parts

(* C19: when the search raises an Exception, each of the four              *)
(* search-backed tools does not raise and returns one human-readable text  *)
(* that names alternative resources; the text of search_internships,       *)
(* search_scholarships and get_learning_roadmap is a fixed sentence around *)
(* the text of the error, that of explain_college_process a fixed sentence *)
(* around the process name, without the error.                             *)
SearchFailureAnswered ==
    SearchRaised =>
        LET err == tool.search.err
            text == tool.parts[1]
        IN /\ ~tool.exc
           /\ Len(tool.parts) = 1
           /\ tool.name = "search_internships" =>
                 /\ StartsWith(text, "Error searching internships: " \o err \o ". Try ")
                 /\ Contains(text, "Internshala, LinkedIn, and Naukri.com")
           /\ tool.name = "search_scholarships" =>
                 /\ StartsWith(text, "Error searching scholarships: " \o err \o ". Check ")
                 /\ Contains(text, "National Scholarship Portal")
           /\ tool.name = "get_learning_roadmap" =>
                 /\ StartsWith(text, "Error generating roadmap: " \o err \o ". I recommend ")
                 /\ Contains(text, "Coursera, edX, and YouTube")
           /\ tool.name = "explain_college_process" =>
                 /\ StartsWith(text, "For information about " \o tool.args[1] \o ", please check ")
                 /\ Contains(text, "official website")
                 /\ ~Contains(text, err)

SearchFailed ==
    /\ SearchRaised
    /\ tool.name = "get_learning_roadmap"
    /\ tool.search.err = "Read timed out."
    /\ ~tool.exc
    /\ Contains(tool.parts[1], "Read timed out.")

-----------------------------------------------------------------------------
(* Properties of the console loop *)

(* The pass of the loop that read the line now in console.read *)
LineRead == console'.reads = console.reads + 1 /\ console'.read.kind = "line"

(* The line as the loop compares it: stripped and lower-cased *)
Typed == Lower(Strip(console'.read.text))

(* C20: in the console loop, a line that is quit, exit or q ends the loop  *)
(* without a chat() call; clear empties the history without a chat() call  *)
(* and the loop goes on; an empty line is skipped; every other line is     *)
(* passed to chat() exactly once and the reply chat() returns is printed   *)
(* in that pass, before the next line is read.  Lines are compared after   *)
(* strip() and lower().                                                    *)
ConsoleLineHandling ==
    [][LineRead =>
          /\ Typed \in {"quit", "exit", "q"} =>
                /\ calls' = calls
                /\ chat_history' = chat_history
                /\ console'.pc = "exited"
          /\ Typed = "clear" =>
                /\ calls' = calls
                /\ chat_history' = <<>>
                /\ console'.pc = "loop"
          /\ Typed = "" =>
                /\ calls' = calls
                /\ chat_history' = chat_history
                /\ console'.printed = <<>>
                /\ console'.pc = "loop"
          /\ Typed \notin {"quit", "exit", "q", "clear", ""} =>
                /\ calls' = calls + 1
                /\ console'.pc = "loop"
                /\ console'.returned =>
                      /\ last'.done
                      /\ last'.text = Str(Strip(console'.read.text))
                      /\ last'.before = chat_history
                      /\ console'.printed = <<"\nAI Mentor: " \o last'.ret.s \o "\n">>
                /\ ~console'.returned => chat_history' = chat_history]_vars

ClearThenReplyPrinted ==
    /\ console.pc = "loop"
    /\ console.reads >= 3
    /\ console.read = Line("please clear my doubts")
    /\ console.returned
    /\ calls = 2
    /\ Len(chat_history) = 2
    /\ console.printed = <<"\nAI Mentor: Here is a plan.\n">>

-----------------------------------------------------------------------------
(* Properties of the startup *)

(* The web session has run its script *)
ScriptRan(s) == \E i \in 1..Len(create_log) : create_log[i].by = s

(* C21: when one of the two credentials is not set at startup, no input is *)
(* ever read or passed to chat(): the console never reads a line and, once *)
(* started, has exited with a non-zero status; a web session never becomes *)
(* ready, so its script stops at the error panel before the form is        *)
(* handled, and it shows no message.                                       *)
NoInputWithoutCredentials ==
    env # Credentials =>
        /\ calls = 0
        /\ ~last.done
        /\ chat_history = <<>>
        /\ console.reads = 0
        /\ console.pc \in {"off", "exited"}
        /\ console.pc = "exited" => console.status # 0
        /\ \A s \in Sessions :
              /\ ~session_state[s].agent_ready
              /\ session_state[s].messages = <<>>
              /\ ~inflight[s].busy
              /\ ScriptRan(s) => session_state[s].last_error # ""

BothSessionsBlocked ==
    /\ env = {"GROQ_API_KEY"}
    /\ \A s \in Sessions : ScriptRan(s) /\ session_state[s].last_error # ""

-----------------------------------------------------------------------------
(* Properties of the stored history across calls *)

IsAssistantTurn(e) == IsPair(e) /\ e.items[1] = Str("assistant")

(* C22: after any sequence of chat() calls and clears that starts from an  *)
(* empty history, the history has even length and alternates human,        *)
(* assistant from a human turn on; it is a run of whole pairs of what the  *)
(* calls appended, each assistant turn holding the reply returned for the  *)
(* human turn before it, so the trim to the cap never splits a pair.       *)
PairingInvariant ==
    LET n == Len(chat_history)
        m == Len(log)
    IN /\ n % 2 = 0
       /\ \A i \in 1..n :
             IF i % 2 = 1 THEN IsHumanTurn(chat_history[i])
             ELSE IsAssistantTurn(chat_history[i])
       /\ n <= m
       /\ (m - n) % 2 = 0
       /\ \A i \in 1..n : chat_history[i] = log[m - n + i]
       /\ (last.done /\ last.appended) =>
             /\ chat_history[n - 1] = Turn("human", last.text)
             /\ chat_history[n] = Turn("assistant", last.ret)

(* A pair was appended to a full history and the oldest pair was dropped *)
PairsKeptAcrossTrim ==
    /\ last.done /\ last.appended
    /\ Len(last.before) = HistoryCap
    /\ Len(chat_history) = HistoryCap
    /\ IsHumanTurn(chat_history[1])
    /\ chat_history[HistoryCap - 1] = Turn("human", last.text)
    /\ chat_history[HistoryCap] = Turn("assistant", last.ret)

(* C23: a chat() call that fails before invoke is reached, while the       *)
(* stored history is formatted or while the executor is constructed,       *)
(* returns the technical-issue text, raises nothing and leaves the history *)
(* exactly as it was before the call.                                      *)
FailureBeforeInvokeLeavesHistory ==
    (last.done /\ ~last.invoked) =>
        /\ ~last.exc
        /\ last.ret = Str("I'm having a technical issue, but please try asking your question again. I'm here to support you!")
        /\ ~last.appended
        /\ chat_history = last.before

(* The construction of the executor failed in a call on a non-empty history *)
ConstructionFailedOnHistory ==
    /\ last.done /\ ~last.invoked
    /\ last.tried
    /\ last.before # <<>>
    /\ chat_history = last.before

HumanTurnsIn(h) == {i \in 1..Len(h) : IsHumanTurn(h[i])}

HumanMessagesIn(msgs) == {i \in 1..Len(msgs) : msgs[i].cls = "HumanMessage"}

(* C24: the list a chat() call passes to invoke as chat_history is made    *)
(* from the history as it stood before the call: it holds one human        *)
(* message per human turn stored before the call and none for the message  *)
(* of the call, which enters the history only with the reply, after invoke *)
(* has returned or raised.                                                 *)
PriorHistoryExcludesCurrentMessage ==
    (last.done /\ last.invoked) =>
        /\ Cardinality(HumanMessagesIn(last.passed)) = Cardinality(HumanTurnsIn(last.before))
        /\ Len(last.passed) <= Len(last.before)
        /\ \A i \in 1..Len(last.passed) :
              \E j \in 1..Len(last.before) : last.before[j].items[2] = last.passed[i].content
        /\ IF last.appended
           THEN chat_history[Len(chat_history) - 1] = Turn("human", last.text)
           ELSE chat_history = last.before

(* The first call on an empty history passed an empty list and stored its *)
(* message afterwards                                                      *)
FirstCallPassedNothing ==
    /\ last.done /\ last.invoked /\ last.appended
    /\ last.before = <<>>
    /\ last.passed = <<>>
    /\ chat_history[1] = Turn("human", last.text)

=============================================================================
